---- MODULE Spec2Model ----
(***************************************************************************)
(* The HTTP-to-stdio bridge of the two-provider wrapper: process handles,  *)
(* id counters, init handshakes, pending sends, 10-second timers and the   *)
(* tool-call router, with each child process as a nondeterministic         *)
(* JSON-RPC peer.  One action is one turn of the Node event loop: an       *)
(* HTTP request arriving, a stdout 'data' chunk, a child 'exit', a timer.  *)
(* The promise continuations (microtasks) a turn triggers belong to it.    *)
(***************************************************************************)
EXTENDS Integers, Sequences, FiniteSets, TLC

VARIABLES proc, msgId, child, ops, timers, reqs, crash, wire

vars == <<proc, msgId, child, ops, timers, reqs, crash, wire>>

\* ---------------------------------------------------------------- bounds
\* HTTP requests accepted in one run
MaxReq == 2
\* non-JSON log lines the children print on stdout in one run
MaxLog == 1
\* frames nobody waits for that one child emits
MaxExtra == 1

\* ------------------------------------------------------------- strings
\* A string is a sequence of one-character strings.
XeroKey == <<"x", "e", "r", "o">>
SupabaseKey == <<"s", "u", "p", "a", "b", "a", "s", "e">>
AllKey == <<"a", "l", "l">>
Dot == "."

\* String.prototype.toLowerCase on the characters the inputs use
LowerChar(ch) ==
    CASE ch = "S" -> "s"
      [] ch = "X" -> "x"
      [] ch = "A" -> "a"
      [] OTHER -> ch

toLowerCase(str) == [i \in 1..Len(str) |-> LowerChar(str[i])]

includes(str, ch) == \E i \in 1..Len(str) : str[i] = ch

\* String.prototype.split(sep) for a one-character separator
RECURSIVE split(_, _)
split(str, sep) ==
    IF ~includes(str, sep) THEN <<str>>
    ELSE LET i == CHOOSE j \in 1..Len(str) :
                     str[j] = sep /\ \A h \in 1..(j - 1) : str[h] # sep
         IN <<SubSeq(str, 1, i - 1)>> \o split(SubSeq(str, i + 1, Len(str)), sep)

\* Array.prototype.join(sep)
RECURSIVE join(_, _)
join(parts, sep) ==
    IF Len(parts) = 0 THEN <<>>
    ELSE IF Len(parts) = 1 THEN parts[1]
    ELSE parts[1] \o <<sep>> \o join(Tail(parts), sep)

\* ------------------------------------------------------------ registry
Providers == {"xero", "supabase"}

\* the keys of the providers object
KeyOf(p) == IF p = "xero" THEN XeroKey ELSE SupabaseKey

Registered(key) == \E p \in Providers : KeyOf(p) = key

ProviderOf(key) == CHOOSE p \in Providers : KeyOf(p) = key

\* a message without an id field
NoId == 0
\* a promise that has not been resolved with a frame
NoFrame == [json |-> FALSE, id |-> NoId, res |-> "none"]
\* no query parameter / no body field
NoHint == <<>>

\* ------------------------------------------------------------- routing
\* POST /tools/:toolName, the provider key and the tool name it resolves
RouteLast(raw, q) ==
    IF includes(raw, Dot)
    THEN LET parts == split(raw, Dot)
         IN [key |-> toLowerCase(parts[1]), name |-> parts[Len(parts)]]
    ELSE IF q # NoHint THEN [key |-> toLowerCase(q), name |-> raw]
    ELSE [key |-> XeroKey, name |-> raw]

ResolveToolRoute(raw, q) ==
    IF includes(raw, Dot)
    THEN LET parts == split(raw, Dot)
         IN [key |-> toLowerCase(parts[1]), name |-> join(Tail(parts), Dot)]
    ELSE IF q # NoHint THEN [key |-> toLowerCase(q), name |-> raw]
    ELSE [key |-> XeroKey, name |-> raw]

\* ------------------------------------------------------- state records
\* The operators below map a state record to the state record after a
\* piece of handler code, so that one event-loop turn composes them.
Cur == [proc |-> proc, msgId |-> msgId, child |-> child, ops |-> ops,
        timers |-> timers, reqs |-> reqs, crash |-> crash]

Commit(next) ==
    \E s \in {next} :
        /\ proc' = s.proc
        /\ msgId' = s.msgId
        /\ child' = s.child
        /\ ops' = s.ops
        /\ timers' = s.timers
        /\ reqs' = s.reqs
        /\ crash' = s.crash
        /\ wire' = wire

Msg(id, method, name) == [id |-> id, method |-> method, name |-> name]

NewOp(kind, p, c, id, r) ==
    [kind |-> kind, prov |-> p, child |-> c, id |-> id, listening |-> TRUE,
     st |-> "pending", frame |-> NoFrame, req |-> r]

\* the providers flags of a GET /health response; none on other routes
NoFlags == [xero |-> FALSE, supabase |-> FALSE]

\* the mcpServer and supabaseServer fields of a response that has none
NoServers == [p \in Providers |-> FALSE]

\* the routes under /supabase, whose catch blocks answer { error: message }
SupabaseRoutes == {"sbtools", "sbcall", "sbmcp"}

\* the shape of the response body a route gives with a status: the child's
\* frame or the merged list on success, the status object of GET /health,
\* { jsonrpc, error: { code, message } } from the 400 returns and the catch
\* blocks of the routed endpoints, { error: message } under /supabase
BodyForm(route, code) ==
    IF route = "health" THEN "health"
    ELSE IF code = 200 THEN "result"
    ELSE IF route \in SupabaseRoutes THEN "plain"
    ELSE "envelope"

\* mcpServerProcess ? 'running' : 'stopped' and the same of
\* supabaseProcess: TRUE stands for 'running'
ServerStates(s) == [p \in Providers |-> s.proc[p] # 0]

\* res.status(code).json(...) ends the request; both bodies of GET /health
\* carry the mcpServer and supabaseServer fields
Respond(s, r, code) ==
    [s EXCEPT !.reqs[r].pc = "done", !.reqs[r].status = code,
              !.reqs[r].form = BodyForm(s.reqs[r].route, code),
              !.reqs[r].servers = IF s.reqs[r].route = "health"
                                  THEN ServerStates(s) ELSE @]

\* A rejected promise reaches the catch block of the request awaiting it;
\* a request that has answered already, or a promise nobody awaits (r = 0,
\* the supabase init of GET /health with its empty catch), answers nothing.
Fail(s, r) ==
    IF r = 0 THEN s
    ELSE IF s.reqs[r].pc = "done" THEN s
    ELSE Respond(s, r, 500)

\* request r, if any, now awaits a promise of this kind
Awaiting(rs, r, pc) == IF r = 0 THEN rs ELSE [rs EXCEPT ![r].pc = pc]

\* stdin.write on child c of provider p
Write(s, p, c, m) ==
    [s EXCEPT !.child[p][c].stdin = Append(@, m),
              !.child[p][c].reply = Append(@, "none")]

\* ------------------------------------------------ xero session (stdio)
\* if (mcpServerProcess) / if (supabaseProcess): the handle is set
AlreadyStartedNever(s, p) == FALSE

AlreadyStarted(s, p) == s.proc[p] # 0

\* initMCPServer past the guard: spawn, write initialize, listen, arm the
\* timer.  The 'error' and 'exit' handlers only log, so a child that fails
\* to spawn (spawnOk = FALSE) stays in mcpServerProcess.
initMCPServer(s, r, spawnOk) ==
    LET c == Len(s.child["xero"]) + 1
        k == Len(s.ops) + 1
        id == s.msgId["xero"]
        s1 == [s EXCEPT !.child["xero"] = Append(@,
                   [st |-> IF spawnOk THEN "running" ELSE "failed",
                    stdin |-> <<>>, reply |-> <<>>, logs |-> 0, term |-> FALSE,
                    extra |-> 0]),
                        !.proc["xero"] = c,
                        !.msgId["xero"] = id + 1,
                        !.ops = Append(@, NewOp("init", "xero", c, id, r)),
                        !.timers = Append(@, k),
                        !.reqs[r].pc = "init"]
    IN Write(s1, "xero", c, Msg(id, "initialize", <<>>))

\* sendMCPMessage: reject when there is no handle, else write, listen, arm
sendMCPMessage(s, r, m) ==
    IF s.proc["xero"] = 0 THEN Respond(s, r, 500)
    ELSE LET c == s.proc["xero"]
             k == Len(s.ops) + 1
             s1 == [s EXCEPT !.ops = Append(@, NewOp("send", "xero", c, m.id, r)),
                             !.timers = Append(@, k),
                             !.reqs[r].pc = "send"]
         IN Write(s1, "xero", c, m)

\* -------------------------------------------- supabase session (stdio)
\* initSupabaseServer past the guard.  outcome "throw": the executor
\* throws before the handle is assigned (defaultArgs is not defined, or
\* spawn rejects its arguments) and the promise rejects; "error": the
\* child emits 'error' on the next tick and the handler clears the handle;
\* "ok": the child runs.
initSupabaseServer(s, r, outcome) ==
    IF outcome = "throw" THEN Fail(s, r)
    ELSE LET c == Len(s.child["supabase"]) + 1
             k == Len(s.ops) + 1
             id == s.msgId["supabase"]
             s1 == [s EXCEPT !.child["supabase"] = Append(@,
                        [st |-> IF outcome = "ok" THEN "running" ELSE "failed",
                         stdin |-> <<>>, reply |-> <<>>, logs |-> 0, term |-> FALSE,
                         extra |-> 0]),
                             !.proc["supabase"] = IF outcome = "ok" THEN c ELSE 0,
                             !.msgId["supabase"] = id + 1,
                             !.ops = Append(@, NewOp("init", "supabase", c, id, r)),
                             !.timers = Append(@, k),
                             !.reqs = Awaiting(@, r, "init")]
         IN Write(s1, "supabase", c, Msg(id, "initialize", <<>>))

sendSupabaseMessage(s, r, m) ==
    IF s.proc["supabase"] = 0 THEN Respond(s, r, 500)
    ELSE LET c == s.proc["supabase"]
             k == Len(s.ops) + 1
             s1 == [s EXCEPT !.ops = Append(@, NewOp("send", "supabase", c, m.id, r)),
                             !.timers = Append(@, k),
                             !.reqs[r].pc = "send"]
         IN Write(s1, "supabase", c, m)

\* providers[key].init() and providers[key].send(message)
ProviderInit(s, p, r, outcome) ==
    IF p = "xero" THEN initMCPServer(s, r, outcome = "ok")
    ELSE initSupabaseServer(s, r, outcome)

ProviderSend(s, p, r, m) ==
    IF p = "xero" THEN sendMCPMessage(s, r, m) ELSE sendSupabaseMessage(s, r, m)

\* ------------------------------------------- POST /tools/:toolName
\* a request as the handlers see it: the route, the tool name as given,
\* ?provider, params.provider and the id of a POST /mcp body, and what the
\* handler resolved
NewReq(route, raw, q, bp, mid, key, name, p) ==
    [route |-> route, raw |-> raw, q |-> q, bp |-> bp, mid |-> mid,
     key |-> key, name |-> name, prov |-> p, pc |-> "start", status |-> 0,
     form |-> "none", tools |-> <<>>, flags |-> NoFlags, spawn |-> "ok",
     servers |-> NoServers, body |-> NoFrame]

\* the JSON-RPC method a route sends
MethodOf(route) ==
    IF route \in {"tool", "mcp", "sbcall", "sbmcp"} THEN "tools/call"
    ELSE IF route \in {"list", "mcplist", "mcpall", "sbtools"} THEN "tools/list"
    ELSE "ping"

\* the id of the message a route builds: the counter's value, which in
\* POST /supabase/mcp the id of the body overrides ({ id, ...req.body })
OutId(s, r) ==
    IF s.reqs[r].route = "sbmcp" /\ s.reqs[r].mid # NoId THEN s.reqs[r].mid
    ELSE s.msgId[s.reqs[r].prov]

\* every id taken from messageId, whichever provider is called
CallAfterInitOneCounter(s, r) ==
    LET s1 == [s EXCEPT !.msgId["xero"] = @ + 1]
    IN ProviderSend(s1, s.reqs[r].prov, r,
                    Msg(s.msgId["xero"], MethodOf(s.reqs[r].route), s.reqs[r].name))

\* after await init() in POST /tools/:toolName, GET /tools and the routes
\* under /supabase: take the id from the provider's counter and send
CallAfterInit(s, r) ==
    LET p == s.reqs[r].prov
        s1 == [s EXCEPT !.msgId[p] = @ + 1]
    IN ProviderSend(s1, p, r,
                    Msg(OutId(s, r), MethodOf(s.reqs[r].route), s.reqs[r].name))

\* after await init() in POST /mcp: the body is sent as it came, with the
\* id the client gave it, if any
McpAfterInit(s, r) ==
    ProviderSend(s, s.reqs[r].prov, r,
                 Msg(s.reqs[r].mid, MethodOf(s.reqs[r].route), s.reqs[r].name))

\* the init promises request r awaits that have not settled
PendingInits(s, r) ==
    {k \in 1..Len(s.ops) :
        s.ops[k].req = r /\ s.ops[k].kind = "init" /\ s.ops[k].st = "pending"}

\* after await Promise.all([xero.init(), supabase.init()]) in POST /mcp
\* with tools/list and provider all: once both have resolved, list xero
AllAfterInit(s, r) ==
    IF PendingInits(s, r) # {} THEN s ELSE CallAfterInit(s, r)

\* supabase's init awaited as xero's is
healthAwaitsSupabase(s, r) ==
    IF AlreadyStarted(s, "supabase")
    THEN Respond([s EXCEPT !.reqs[r].flags = [xero |-> TRUE, supabase |-> TRUE]],
                 r, 200)
    ELSE initSupabaseServer(s, r, s.reqs[r].spawn)

\* the flags read before supabase's init is called
healthFlagsBeforeInit(s, r) ==
    LET s1 == IF AlreadyStarted(s, "supabase") THEN s
              ELSE initSupabaseServer(s, 0, s.reqs[r].spawn)
    IN Respond([s1 EXCEPT !.reqs[r].flags =
                              [xero |-> TRUE,
                               supabase |-> AlreadyStarted(s, "supabase")]],
               r, 200)

\* GET /health after await providers.xero.init(): supabase's init is
\* called and not awaited, then the 200 with the flags as they are now.
\* A supabase child that fails to spawn emits 'error' after this turn, so
\* the body is built with the handle the spawn assigned.
healthAfterInit(s, r) ==
    LET s1 == IF AlreadyStarted(s, "supabase") THEN s
              ELSE initSupabaseServer(s, 0, s.reqs[r].spawn)
        assigned == \/ AlreadyStarted(s, "supabase")
                    \/ Len(s1.child["supabase"]) > Len(s.child["supabase"])
        s2 == Respond([s1 EXCEPT !.reqs[r].flags =
                                     [xero |-> TRUE, supabase |-> assigned]],
                      r, 200)
    IN [s2 EXCEPT !.reqs[r].servers["supabase"] = assigned]

AfterInit(s, r) ==
    CASE s.reqs[r].route \in {"tool", "list", "sbtools", "sbcall", "sbmcp"} ->
             CallAfterInit(s, r)
      [] s.reqs[r].route \in {"mcp", "mcplist", "mcpother"} -> McpAfterInit(s, r)
      [] s.reqs[r].route = "mcpall" -> AllAfterInit(s, r)
      [] s.reqs[r].route = "health" -> healthAfterInit(s, r)

\* providers[key].init() for request r: resolved at once when the handle
\* is set, else the spawn and the handshake
EnsureInit(s, p, r, outcome) ==
    IF AlreadyStarted(s, p) THEN AfterInit(s, r) ELSE ProviderInit(s, p, r, outcome)

\* providers[providerKey] is set
Known(key) == Registered(key)

\* the id taken from the counter before the provider key is looked up
toolCallTakesIdFirst(s, raw, q, outcome) ==
    LET r == Len(s.reqs) + 1
        route == ResolveToolRoute(raw, q)
        known == route.key # AllKey /\ Known(route.key)
        p == IF known THEN ProviderOf(route.key) ELSE "none"
        s1 == [s EXCEPT !.reqs = Append(@,
                   NewReq("tool", raw, q, NoHint, NoId, route.key, route.name, p)),
                        !.msgId["xero"] = @ + 1]
    IN IF ~known THEN Respond(s1, r, 400)
       ELSE IF AlreadyStarted(s1, p) THEN AfterInit(s1, r)
       ELSE ProviderInit(s1, p, r, outcome)

\* the handler up to its first suspension
toolCall(s, raw, q, outcome) ==
    LET r == Len(s.reqs) + 1
        route == ResolveToolRoute(raw, q)
        known == route.key # AllKey /\ Known(route.key)
        p == IF known THEN ProviderOf(route.key) ELSE "none"
        s1 == [s EXCEPT !.reqs = Append(@,
                   NewReq("tool", raw, q, NoHint, NoId, route.key, route.name, p))]
    IN IF ~known THEN Respond(s1, r, 400)
       ELSE IF AlreadyStarted(s1, p) THEN AfterInit(s1, r)
       ELSE ProviderInit(s1, p, r, outcome)

\* ---------------------------------- POST /mcp with method tools/call
\* params.provider not looked at
ResolveMcpRouteNoBody(raw, bp, q) ==
    IF includes(raw, Dot)
    THEN LET parts == split(raw, Dot)
         IN [key |-> toLowerCase(parts[1]), name |-> join(Tail(parts), Dot)]
    ELSE IF q # NoHint THEN [key |-> toLowerCase(q), name |-> raw]
    ELSE [key |-> XeroKey, name |-> raw]

\* ?provider looked at before params.provider
ResolveMcpRouteQueryFirst(raw, bp, q) ==
    IF includes(raw, Dot)
    THEN LET parts == split(raw, Dot)
         IN [key |-> toLowerCase(parts[1]), name |-> join(Tail(parts), Dot)]
    ELSE IF q # NoHint THEN [key |-> toLowerCase(q), name |-> raw]
    ELSE IF bp # NoHint THEN [key |-> toLowerCase(bp), name |-> raw]
    ELSE [key |-> XeroKey, name |-> raw]

\* the prefix of params.name, else params.provider, else ?provider, else
\* xero
ResolveMcpRoute(raw, bp, q) ==
    IF includes(raw, Dot)
    THEN LET parts == split(raw, Dot)
         IN [key |-> toLowerCase(parts[1]), name |-> join(Tail(parts), Dot)]
    ELSE IF bp # NoHint THEN [key |-> toLowerCase(bp), name |-> raw]
    ELSE IF q # NoHint THEN [key |-> toLowerCase(q), name |-> raw]
    ELSE [key |-> XeroKey, name |-> raw]

mcpCall(s, raw, bp, q, mid, outcome) ==
    LET r == Len(s.reqs) + 1
        route == ResolveMcpRoute(raw, bp, q)
        known == Known(route.key)
        p == IF known THEN ProviderOf(route.key) ELSE "none"
        s1 == [s EXCEPT !.reqs = Append(@,
                   NewReq("mcp", raw, q, bp, mid, route.key, route.name, p))]
    IN IF ~known THEN Respond(s1, r, 400)
       ELSE IF AlreadyStarted(s1, p) THEN AfterInit(s1, r)
       ELSE ProviderInit(s1, p, r, outcome)

\* ------------------------------------------------------- GET /tools
\* (req.query.provider || 'xero').toString().toLowerCase()
ListWant(bp, q) ==
    toLowerCase(IF bp # NoHint THEN bp ELSE IF q # NoHint THEN q ELSE XeroKey)

\* the handler up to its first suspension: xero's list when the selector
\* is xero or all, then supabase's when it is supabase or all; any other
\* selector runs neither block and answers the empty merged list
listTools(s, q, outcome, later) ==
    LET r == Len(s.reqs) + 1
        want == ListWant(NoHint, q)
        p == IF want \in {XeroKey, AllKey} THEN "xero"
             ELSE IF want = SupabaseKey THEN "supabase"
             ELSE "none"
        s1 == [s EXCEPT !.reqs = Append(@,
                   [NewReq("list", <<>>, q, NoHint, NoId, want, <<>>, p)
                       EXCEPT !.spawn = later])]
    IN IF p = "none" THEN Respond(s1, r, 200)
       ELSE EnsureInit(s1, p, r, outcome)

\* ---------------------------------- POST /mcp with method tools/list
\* provider all: both inits are called in the same turn and awaited
\* together; any other selector goes to supabase when it is 'supabase'
\* and to xero otherwise
mcpList(s, bp, q, mid, outcome, later) ==
    LET r == Len(s.reqs) + 1
        want == ListWant(bp, q)
        p == IF want = SupabaseKey THEN "supabase" ELSE "xero"
        s1 == [s EXCEPT !.reqs = Append(@,
                   NewReq(IF want = AllKey THEN "mcpall" ELSE "mcplist",
                          <<>>, q, bp, mid, want, <<>>, p))]
        s2 == IF AlreadyStarted(s1, "xero") THEN s1
              ELSE ProviderInit(s1, "xero", r, outcome)
        s3 == IF AlreadyStarted(s2, "supabase") THEN s2
              ELSE initSupabaseServer(s2, r, later)
    IN IF want # AllKey THEN EnsureInit(s1, p, r, outcome)
       ELSE IF s3.reqs[r].pc = "done" THEN s3
       ELSE AllAfterInit(s3, r)

\* ------------------------------------ POST /mcp with any other method
mcpOther(s, q, mid, outcome) ==
    LET r == Len(s.reqs) + 1
        key == IF q # NoHint THEN toLowerCase(q) ELSE XeroKey
        known == Known(key)
        p == IF known THEN ProviderOf(key) ELSE "none"
        s1 == [s EXCEPT !.reqs = Append(@,
                   NewReq("mcpother", <<>>, q, NoHint, mid, key, <<>>, p))]
    IN IF ~known THEN Respond(s1, r, 400)
       ELSE EnsureInit(s1, p, r, outcome)

\* --------- GET /supabase/tools, POST /supabase/tools/:toolName and /mcp
supabaseRoute(s, route, name, mid, outcome) ==
    LET r == Len(s.reqs) + 1
        s1 == [s EXCEPT !.reqs = Append(@,
                   NewReq(route, name, NoHint, NoHint, mid, SupabaseKey, name,
                          "supabase"))]
    IN EnsureInit(s1, "supabase", r, outcome)

\* ------------------------------------------------------- GET /health
health(s, outcome, later) ==
    LET r == Len(s.reqs) + 1
        s1 == [s EXCEPT !.reqs = Append(@,
                   [NewReq("health", <<>>, NoHint, NoHint, NoId, XeroKey, <<>>,
                           "xero") EXCEPT !.spawn = later])]
    IN EnsureInit(s1, "xero", r, outcome)

\* ------------------------------------------------------------ SIGINT
\* with a xero handle the handler calls mcpServerProcess.terminate(), which
\* a ChildProcess does not have: the TypeError leaves the handler before
\* process.exit; with no xero handle it exits at once.  Neither path
\* signals a child, and supabaseProcess is not looked at.
onSigint(s) ==
    IF s.proc["xero"] # 0 THEN [s EXCEPT !.crash = "sigint"]
    ELSE [s EXCEPT !.crash = "exit"]

\* --------------------------------------------- HTTP requests arriving
\* whether a handler that resolved this key reaches a spawn
NeedsSpawn(key) ==
    /\ key # AllKey
    /\ Known(key)
    /\ ~AlreadyStarted(Cur, ProviderOf(key))

\* what the spawn may do: run, emit 'error', or (supabase) throw
SpawnOutcomes(key) ==
    IF ~NeedsSpawn(key) THEN {"ok"}
    ELSE IF ProviderOf(key) = "xero" THEN {"ok", "error"}
    ELSE {"ok", "error", "throw"}

CallTool(raw, q) ==
    /\ crash = "none"
    /\ \E outcome \in SpawnOutcomes(ResolveToolRoute(raw, q).key) :
           Commit(toolCall(Cur, raw, q, outcome))

McpCall(raw, bp, q, mid) ==
    /\ crash = "none"
    /\ \E outcome \in SpawnOutcomes(ResolveMcpRoute(raw, bp, q).key) :
           Commit(mcpCall(Cur, raw, bp, q, mid, outcome))

\* what a supabase spawn in a later turn of the request may do
LaterOutcomes(reaches) ==
    IF reaches THEN {"ok", "error", "throw"} ELSE {"ok"}

\* the provider a list selector starts with
FirstKey(want) == IF want = SupabaseKey THEN SupabaseKey ELSE XeroKey

ListTools(q) ==
    /\ crash = "none"
    /\ \E outcome \in SpawnOutcomes(
                         IF ListWant(NoHint, q) \in {XeroKey, AllKey, SupabaseKey}
                         THEN FirstKey(ListWant(NoHint, q)) ELSE ListWant(NoHint, q)),
          later \in LaterOutcomes(ListWant(NoHint, q) = AllKey) :
           Commit(listTools(Cur, q, outcome, later))

McpList(bp, q, mid) ==
    /\ crash = "none"
    /\ \E outcome \in SpawnOutcomes(FirstKey(ListWant(bp, q))),
          later \in LaterOutcomes(/\ ListWant(bp, q) = AllKey
                                  /\ ~AlreadyStarted(Cur, "supabase")) :
           Commit(mcpList(Cur, bp, q, mid, outcome, later))

McpOther(q, mid) ==
    /\ crash = "none"
    /\ \E outcome \in SpawnOutcomes(IF q # NoHint THEN toLowerCase(q) ELSE XeroKey) :
           Commit(mcpOther(Cur, q, mid, outcome))

SupabaseRoute(route, name, mid) ==
    /\ crash = "none"
    /\ \E outcome \in SpawnOutcomes(SupabaseKey) :
           Commit(supabaseRoute(Cur, route, name, mid, outcome))

Health ==
    /\ crash = "none"
    /\ \E outcome \in SpawnOutcomes(XeroKey), later \in LaterOutcomes(TRUE) :
           Commit(health(Cur, outcome, later))

Sigint ==
    /\ crash = "none"
    /\ Commit(onSigint(Cur))

\* ------------------------------------------------- stdout 'data' events
\* A chunk is one complete line: a JSON-RPC frame or a non-JSON log line.
Frame(id, res) == [json |-> TRUE, id |-> id, res |-> res]
LogLine == [json |-> FALSE, id |-> NoId, res |-> "none"]

\* what a child answers a request with: an error, a result, or for
\* tools/list a result that carries the tools array
ResultOf(method, res) ==
    IF res = "result" /\ method = "tools/list" THEN "tools" ELSE res

\* parsed.result is set
HasResult(chunk) == chunk.res \in {"result", "tools"}

\* the tools each child lists, in its own order
ToolT == <<"t">>
ToolU == <<"u">>
NativeTools(p) == IF p = "xero" THEN <<ToolT, ToolU>> ELSE <<ToolT>>

\* resp?.result?.tools || [] of the frame promise k resolved with
ToolsOf(s, k) ==
    IF s.ops[k].frame.res = "tools" THEN NativeTools(s.ops[k].prov) ELSE <<>>

\* tools.map((t) => ({ ...t, name: `${key}.${t.name}` }))
Prefixed(p, tools) ==
    [i \in 1..Len(tools) |-> KeyOf(p) \o <<Dot>> \o tools[i]]

\* stdout.removeListener('data', listener) through the provider's global
\* handle: it reaches the listener only if the handle still is the child
\* the listener was registered on.
RemoveListener(s, k) ==
    IF s.proc[s.ops[k].prov] = s.ops[k].child
    THEN [s EXCEPT !.ops[k].listening = FALSE]
    ELSE s

\* onInitData comparing the id of the frame with the id of initialize
onInitDataOwnId(s, k, chunk) ==
    /\ chunk.json
    /\ HasResult(chunk)
    /\ chunk.id = s.ops[k].id
    /\ s.ops[k].prov = "supabase" => s.proc["supabase"] # 0

\* onInitData of both providers: the first JSON line with a result
\* resolves; any other line is skipped.  In initSupabaseServer the
\* removeListener call sits inside the try around JSON.parse, so with a
\* cleared handle the TypeError is swallowed and resolve is not reached.
onInitDataResolves(s, k, chunk) ==
    /\ chunk.json
    /\ HasResult(chunk)
    /\ s.ops[k].prov = "supabase" => s.proc["supabase"] # 0

\* onData of sendMCPMessage: any non-empty chunk resolves with
\* JSON.parse(chunk); no id is compared.
onDataXeroResolves(s, k, chunk) == chunk.json

\* JSON.parse of a log line throws inside the listener
onDataXeroThrows(s, k, chunk) == ~chunk.json

\* onData of sendSupabaseMessage: a JSON line whose id is the expected id
\* (or any JSON line when the message had no id) resolves
onDataSupabaseMatches(s, k, chunk) ==
    /\ chunk.json
    /\ (chunk.id = s.ops[k].id \/ s.ops[k].id = NoId)

onDataSupabaseResolves(s, k, chunk) ==
    onDataSupabaseMatches(s, k, chunk) /\ s.proc["supabase"] # 0

\* with a cleared handle, removeListener throws in the try and again in
\* the catch
onDataSupabaseThrows(s, k, chunk) ==
    onDataSupabaseMatches(s, k, chunk) /\ s.proc["supabase"] = 0

Resolves(s, k, chunk) ==
    IF s.ops[k].kind = "init" THEN onInitDataResolves(s, k, chunk)
    ELSE IF s.ops[k].prov = "xero" THEN onDataXeroResolves(s, k, chunk)
    ELSE onDataSupabaseResolves(s, k, chunk)

Throws(s, k, chunk) ==
    /\ s.ops[k].kind = "send"
    /\ IF s.ops[k].prov = "xero" THEN onDataXeroThrows(s, k, chunk)
       ELSE onDataSupabaseThrows(s, k, chunk)

\* the listeners registered on child c of provider p
Listeners(s, p, c) ==
    {k \in 1..Len(s.ops) :
        s.ops[k].prov = p /\ s.ops[k].child = c /\ s.ops[k].listening}

\* a listener that resolves: removeListener, then resolve(frame)
Settle(s, k, chunk) ==
    LET s1 == RemoveListener(s, k)
    IN [s1 EXCEPT !.ops[k].st = "resolved", !.ops[k].frame = chunk]

\* GET /tools, and POST /mcp with tools/list and provider all, after a
\* tools/list resolved: the tools of the frame, prefixed under 'all', are
\* pushed; under 'all' after xero's list comes supabase's (behind its init
\* in GET /tools), and then the merged list is the answer
ListAfterSend(s, k) ==
    LET r == s.ops[k].req
        p == s.ops[k].prov
        all == s.reqs[r].key = AllKey
        got == IF all THEN Prefixed(p, ToolsOf(s, k)) ELSE ToolsOf(s, k)
        s1 == [s EXCEPT !.reqs[r].tools = @ \o got]
        s2 == [s1 EXCEPT !.reqs[r].prov = "supabase"]
    IN IF all /\ p = "xero"
       THEN IF s.reqs[r].route = "list"
            THEN EnsureInit(s2, "supabase", r, s.reqs[r].spawn)
            ELSE CallAfterInit(s2, r)
       ELSE Respond(s1, r, 200)

\* res.json(result): the frame the send resolved with is the body
Forward(s, r, k) ==
    [Respond(s, r, 200) EXCEPT !.reqs[r].body = s.ops[k].frame]

\* the continuation of the request awaiting promise k, once it resolved
Continue(s, k) ==
    LET r == s.ops[k].req
    IN IF r = 0 THEN s
       ELSE IF s.reqs[r].pc = "done" THEN s
       ELSE IF s.ops[k].kind = "init" THEN AfterInit(s, r)
       ELSE IF s.reqs[r].route \in {"list", "mcpall"} THEN ListAfterSend(s, k)
       ELSE Forward(s, r, k)

RECURSIVE SettleAll(_, _, _)
SettleAll(s, ks, chunk) ==
    IF ks = {} THEN s
    ELSE LET k == CHOOSE x \in ks : \A y \in ks : x <= y
         IN SettleAll(Settle(s, k, chunk), ks \ {k}, chunk)

RECURSIVE ContinueAll(_, _)
ContinueAll(s, ks) ==
    IF ks = {} THEN s
    ELSE LET k == CHOOSE x \in ks : \A y \in ks : x <= y
         IN ContinueAll(Continue(s, k), ks \ {k})

\* emit('data', chunk) on the stdout of child c: every registered listener
\* runs, then the microtasks of the promises they resolved.  A listener
\* that throws is an uncaught exception: the front end dies.
EmitData(s, p, c, chunk) ==
    LET ls == Listeners(s, p, c)
        hit == {k \in ls : Resolves(s, k, chunk)}
    IN IF \E k \in ls : Throws(s, k, chunk)
       THEN [s EXCEPT !.crash = p]
       ELSE ContinueAll(SettleAll(s, hit, chunk), hit)

\* The child answers the i-th request on its stdin, in any order:
\* initialize with a result or an error, a call with a result.
Answer(p, c, i, res) ==
    /\ crash = "none"
    /\ c \in 1..Len(child[p])
    /\ child[p][c].st = "running"
    /\ i \in 1..Len(child[p][c].stdin)
    /\ child[p][c].reply[i] = "none"
    /\ child[p][c].stdin[i].id # NoId
    /\ res = "error" => child[p][c].stdin[i].method = "initialize"
    /\ LET s1 == [Cur EXCEPT !.child[p][c].reply[i] = res]
           m == child[p][c].stdin[i]
       IN Commit(EmitData(s1, p, c, Frame(m.id, ResultOf(m.method, res))))

\* The child answers a call, the i-th request on its stdin, with an error
\* frame.
AnswerError(p, c, i) ==
    /\ crash = "none"
    /\ c \in 1..Len(child[p])
    /\ child[p][c].st = "running"
    /\ i \in 1..Len(child[p][c].stdin)
    /\ child[p][c].reply[i] = "none"
    /\ child[p][c].stdin[i].id # NoId
    /\ child[p][c].stdin[i].method # "initialize"
    /\ LET s1 == [Cur EXCEPT !.child[p][c].reply[i] = "error"]
       IN Commit(EmitData(s1, p, c, Frame(child[p][c].stdin[i].id, "error")))

RECURSIVE SumLogs(_)
SumLogs(cs) == IF cs = <<>> THEN 0 ELSE Head(cs).logs + SumLogs(Tail(cs))

\* the log lines printed so far
LogsPrinted == SumLogs(child["xero"]) + SumLogs(child["supabase"])

\* the child prints a log line on stdout
Log(p, c) ==
    /\ crash = "none"
    /\ c \in 1..Len(child[p])
    /\ child[p][c].st = "running"
    /\ LogsPrinted < MaxLog
    /\ LET s1 == [Cur EXCEPT !.child[p][c].logs = @ + 1]
       IN Commit(EmitData(s1, p, c, LogLine))

\* The child emits once more the response it gave to the i-th request on
\* its stdin.
Duplicate(p, c, i) ==
    /\ crash = "none"
    /\ c \in 1..Len(child[p])
    /\ child[p][c].st = "running"
    /\ child[p][c].extra < MaxExtra
    /\ i \in 1..Len(child[p][c].stdin)
    /\ child[p][c].reply[i] # "none"
    /\ LET s1 == [Cur EXCEPT !.child[p][c].extra = @ + 1]
           m == child[p][c].stdin[i]
       IN Commit(EmitData(s1, p, c,
                          Frame(m.id, ResultOf(m.method, child[p][c].reply[i]))))

\* The child emits a response bearing an id that no request written to it
\* has.
Stray(p, c, id) ==
    /\ crash = "none"
    /\ c \in 1..Len(child[p])
    /\ child[p][c].st = "running"
    /\ child[p][c].extra < MaxExtra
    /\ \A i \in 1..Len(child[p][c].stdin) : child[p][c].stdin[i].id # id
    /\ LET s1 == [Cur EXCEPT !.child[p][c].extra = @ + 1]
       IN Commit(EmitData(s1, p, c, Frame(id, "result")))

\* ----------------------------------------------------- child 'exit'
\* xero's handler logs; supabase's handler clears supabaseProcess
onExit(s, p, c) ==
    LET s1 == [s EXCEPT !.child[p][c].st = "exited"]
    IN IF p = "supabase" THEN [s1 EXCEPT !.proc["supabase"] = 0] ELSE s1

Exit(p, c) ==
    /\ crash = "none"
    /\ c \in 1..Len(child[p])
    /\ child[p][c].st = "running"
    /\ Commit(onExit(Cur, p, c))

\* ------------------------------------------------ the 10-second timers
\* the catch block writing the request once more to the child instead of
\* answering
RejectAndResend(s, k) ==
    IF s.ops[k].st = "pending" /\ s.ops[k].kind = "send"
    THEN Write([s EXCEPT !.ops[k].st = "rejected"], s.ops[k].prov, s.ops[k].child,
               Msg(s.ops[k].id, MethodOf(s.reqs[s.ops[k].req].route),
                   s.reqs[s.ops[k].req].name))
    ELSE IF s.ops[k].st = "pending"
    THEN Fail([s EXCEPT !.ops[k].st = "rejected"], s.ops[k].req)
    ELSE s

\* reject(...) of promise k and the catch block of the request awaiting it
Reject(s, k) ==
    IF s.ops[k].st = "pending"
    THEN Fail([s EXCEPT !.ops[k].st = "rejected"], s.ops[k].req)
    ELSE s

\* the timer of an init: removeListener behind a null check, then reject
onInitTimeoutDropsHandle(s, k) ==
    [Reject(IF s.proc[s.ops[k].prov] # 0 THEN RemoveListener(s, k) ELSE s, k)
        EXCEPT !.proc[s.ops[k].prov] = 0]

onInitTimeout(s, k) ==
    Reject(IF s.proc[s.ops[k].prov] # 0 THEN RemoveListener(s, k) ELSE s, k)

\* the timer of sendMCPMessage
onSendTimeoutXero(s, k) == Reject(RemoveListener(s, k), k)

\* the timer of sendSupabaseMessage: supabaseProcess.stdout is read with
\* no null check, so with a cleared handle the callback throws before
\* reject
onSendTimeoutSupabase(s, k) ==
    IF s.proc["supabase"] = 0 THEN [s EXCEPT !.crash = "supabase"]
    ELSE Reject(RemoveListener(s, k), k)

\* All timers last 10 seconds, so they fire in the order they were armed.
Timeout ==
    /\ crash = "none"
    /\ timers # <<>>
    /\ LET k == Head(timers)
           s1 == [Cur EXCEPT !.timers = Tail(@)]
       IN Commit(IF ops[k].kind = "init" THEN onInitTimeout(s1, k)
                 ELSE IF ops[k].prov = "xero" THEN onSendTimeoutXero(s1, k)
                 ELSE onSendTimeoutSupabase(s1, k))

\* --------------------------------------------- stdout as a byte stream
\* One stdout listener looked at on its own, fed the text a child wrote
\* in the chunks the pipe happens to deliver.  The text of a frame is
\* '{', the id, 'r' for a result or 'e' for an error, '}'.
NL == "\n"

Digit(id) == IF id = 1 THEN "1" ELSE "2"

\* JSON.stringify(frame)
FrameLine(id, res) == <<"{", Digit(id), IF res = "result" THEN "r" ELSE "e", "}">>

\* JSON.parse(line) does not throw
IsJson(line) ==
    /\ Len(line) = 4
    /\ line[1] = "{"
    /\ line[2] \in {"1", "2"}
    /\ line[3] \in {"r", "e"}
    /\ line[4] = "}"

\* JSON.parse(line)
parse(line) ==
    Frame(IF line[2] = "1" THEN 1 ELSE 2, IF line[3] = "r" THEN "result" ELSE "error")

\* String.prototype.trim, the newline being the only white space here
RECURSIVE trim(_)
trim(str) ==
    IF str = <<>> THEN str
    ELSE IF Head(str) = NL THEN trim(Tail(str))
    ELSE IF str[Len(str)] = NL THEN trim(SubSeq(str, 1, Len(str) - 1))
    ELSE str

\* line.startsWith('{') || line.startsWith('[')
Candidate(line) == line # <<>> /\ line[1] \in {"{", "["}

\* what a listener waits for: onInitData a frame with a result, the
\* supabase onData a frame with the expected id (any frame if none)
Accepts(kind, id, frame) ==
    IF kind = "init" THEN HasResult(frame) ELSE (frame.id = id \/ id = NoId)

\* the lines of the loop that reach resolve
Hits(lines, kind, id) ==
    {i \in 1..Len(lines) :
        /\ Candidate(trim(lines[i]))
        /\ IsJson(trim(lines[i]))
        /\ Accepts(kind, id, parse(trim(lines[i])))}

FirstHit(lines, kind, id) ==
    CHOOSE i \in Hits(lines, kind, id) : \A j \in Hits(lines, kind, id) : i <= j

Resolved(w, line) == [w EXCEPT !.st = "resolved", !.frame = parse(trim(line))]

\* onInitData of initMCPServer: the lines of this chunk alone
onInitDataXero(w, text) ==
    LET lines == split(text, NL)
    IN IF Hits(lines, "init", w.id) = {} THEN w
       ELSE Resolved(w, lines[FirstHit(lines, "init", w.id)])

\* onData of sendMCPMessage: the chunk, trimmed, is parsed as one value
onDataXero(w, text) ==
    IF trim(text) = <<>> THEN w
    ELSE IF IsJson(trim(text)) THEN Resolved(w, text)
    ELSE [w EXCEPT !.st = "threw"]

\* onInitData and onData of the supabase functions: the chunk is appended
\* to the buffer, the complete lines are looked at, the rest is kept
onDataBuffered(w, text) ==
    LET lines == split(w.buf \o text, NL)
        done == SubSeq(lines, 1, Len(lines) - 1)
    IN IF Hits(done, w.kind, w.id) = {}
       THEN [w EXCEPT !.buf = lines[Len(lines)]]
       ELSE Resolved([w EXCEPT !.buf = lines[Len(lines)]],
                     done[FirstHit(done, w.kind, w.id)])

\* one 'data' event on the listener; a listener that has resolved has
\* removed itself, one that threw has ended the front end
onWireData(w, text) ==
    IF w.st # "listening" THEN w
    ELSE IF w.prov = "supabase" THEN onDataBuffered(w, text)
    ELSE IF w.kind = "init" THEN onInitDataXero(w, text)
    ELSE onDataXero(w, text)

\* no listener under study
NoWire == [prov |-> "none", kind |-> "none", id |-> NoId, out |-> <<>>,
           chunks |-> <<>>, pos |-> 0, buf |-> <<>>, st |-> "none",
           frame |-> NoFrame]

\* ------------------------------------------------------ specification
\* tool names and ?provider values of the requests
SupabaseT == SupabaseKey \o <<Dot>> \o ToolT
Names == {ToolT, SupabaseT}
Hints == {NoHint}

Init ==
    /\ proc = [p \in Providers |-> 0]
    /\ msgId = [p \in Providers |-> 1]
    /\ child = [p \in Providers |-> <<>>]
    /\ ops = <<>>
    /\ timers = <<>>
    /\ reqs = <<>>
    /\ crash = "none"
    /\ wire = NoWire

Next ==
    \/ /\ Len(reqs) < MaxReq
       /\ \E raw \in Names, q \in Hints : CallTool(raw, q)
    \/ \E p \in Providers, c \in 1..MaxReq, i \in 1..(MaxReq + 1),
          res \in {"result", "error"} : Answer(p, c, i, res)
    \/ \E p \in Providers, c \in 1..MaxReq : Log(p, c)
    \/ \E p \in Providers, c \in 1..MaxReq : Exit(p, c)
    \/ Timeout

Spec == Init /\ [][Next]_vars

\* ------------------------------------------- the router on its inputs
\* HTTP requests accepted in one run of the routing specification
MaxRouteReq == 1

XeroTU == XeroKey \o <<Dot>> \o ToolT \o <<Dot, "u">>
UpperSupabaseT == <<"S", "U", "P", "A", "B", "A", "S", "E", Dot>> \o ToolT
GhostT == <<"g", Dot>> \o ToolT
AllT == AllKey \o <<Dot>> \o ToolT
RouteNames == {ToolT, SupabaseT, XeroTU, UpperSupabaseT, GhostT, AllT}
RouteHints == {NoHint, XeroKey, SupabaseKey}
\* the id field of a POST /mcp body: absent, or a number the client chose
McpIds == {NoId, 1}

\* Requests with every shape of name and hint, against children that
\* answer or stay silent until the timers fire.
NextRoute ==
    \/ /\ Len(reqs) < MaxRouteReq
       /\ \E raw \in RouteNames, q \in RouteHints : CallTool(raw, q)
    \/ /\ Len(reqs) < MaxRouteReq
       /\ \E raw \in RouteNames, bp \in RouteHints, q \in RouteHints, mid \in McpIds :
              McpCall(raw, bp, q, mid)
    \/ \E p \in Providers, c \in 1..MaxRouteReq, i \in 1..(MaxRouteReq + 1),
          res \in {"result", "error"} : Answer(p, c, i, res)
    \/ Timeout

SpecRoute == Init /\ [][NextRoute]_vars

\* --------------------------------------- the selectors on every route
\* HTTP requests accepted in one run of the selector specification
MaxSelectReq == 2

\* a provider key that is not registered
GhostKey == <<"g">>
\* ?provider of GET /tools and of POST /mcp with another method, and
\* params.provider of POST /mcp with tools/list
SelectHints == {NoHint, GhostKey}
\* the tool name and ?provider of POST /tools/:toolName
SelectTool ==
    {<<ToolT, NoHint>>, <<ToolT, AllKey>>, <<ToolT, GhostKey>>,
     <<AllT, NoHint>>, <<GhostT, NoHint>>, <<AllT, GhostKey>>}
\* params.name, params.provider and ?provider of POST /mcp with tools/call
SelectMcp ==
    {<<ToolT, NoHint, NoHint>>, <<ToolT, AllKey, NoHint>>,
     <<ToolT, NoHint, AllKey>>, <<AllT, NoHint, NoHint>>,
     <<ToolT, GhostKey, NoHint>>, <<ToolT, NoHint, GhostKey>>,
     <<ToolT, AllKey, GhostKey>>}

\* Requests on every route that takes a provider selector, with selectors
\* that are absent, 'all' or unregistered.
NextSelect ==
    \/ /\ Len(reqs) < MaxSelectReq
       /\ \E q \in SelectHints : ListTools(q)
    \/ /\ Len(reqs) < MaxSelectReq
       /\ \E bp \in SelectHints : McpList(bp, NoHint, 1)
    \/ /\ Len(reqs) < MaxSelectReq
       /\ \E q \in SelectHints \cup {AllKey} : McpOther(q, 1)
    \/ /\ Len(reqs) < MaxSelectReq
       /\ \E in \in SelectTool : CallTool(in[1], in[2])
    \/ /\ Len(reqs) < MaxSelectReq
       /\ \E in \in SelectMcp : McpCall(in[1], in[2], in[3], 1)
    \/ \E p \in Providers, c \in 1..MaxSelectReq, i \in 1..(MaxSelectReq + 1) :
           Answer(p, c, i, "result")
    \/ Timeout

SpecSelect == Init /\ [][NextSelect]_vars

\* ------------------------------------- listing and the /supabase routes
\* HTTP requests accepted in one run of the listing specification
MaxListReq == 2

\* Tool listings, one provider or all, next to a tool call and to the
\* routes under /supabase, against children that answer or stay silent.
NextList ==
    \/ /\ Len(reqs) < MaxListReq
       /\ \E q \in {NoHint, AllKey} : ListTools(q)
    \/ /\ Len(reqs) < MaxListReq
       /\ McpList(AllKey, NoHint, 1)
    \/ /\ Len(reqs) < MaxListReq
       /\ CallTool(ToolT, NoHint)
    \/ /\ Len(reqs) < MaxListReq
       /\ \E route \in SupabaseRoutes, mid \in McpIds :
              SupabaseRoute(route, ToolT, IF route = "sbmcp" THEN mid ELSE NoId)
    \/ \E p \in Providers, c \in 1..MaxListReq, i \in 1..(2 * MaxListReq + 1) :
           Answer(p, c, i, "result")
    \/ Timeout

SpecList == Init /\ [][NextList]_vars

\* ------------------------------------------- the probe and the signal
\* HTTP requests accepted in one run of the probe specification
MaxHealthReq == 2

\* Health probes next to calls to supabase, with children that answer,
\* fail to spawn, exit or stay silent, and the shutdown signal.
NextHealth ==
    \/ /\ Len(reqs) < MaxHealthReq
       /\ Health
    \/ /\ Len(reqs) < MaxHealthReq
       /\ CallTool(SupabaseT, NoHint)
    \/ \E p \in Providers, c \in 1..(MaxHealthReq + 1), i \in 1..(MaxHealthReq + 1),
          res \in {"result", "error"} : Answer(p, c, i, res)
    \/ \E p \in Providers, c \in 1..(MaxHealthReq + 1) : Exit(p, c)
    \/ Timeout
    \/ Sigint

SpecHealth == Init /\ [][NextHealth]_vars

\* ------------------------------------------ one listener on the stream
\* lines a child writes in one run of the stream specification
MaxLines == 2
\* places where the pipe splits the text
MaxCuts == 2

\* the well-formed lines a child writes
FrameLines == {FrameLine(1, "error"), FrameLine(1, "result"), FrameLine(2, "result")}

\* the text of a sequence of lines, each ended by a newline
RECURSIVE Text(_)
Text(ls) == IF ls = <<>> THEN <<>> ELSE Head(ls) \o <<NL>> \o Text(Tail(ls))

Outputs == {Text(ls) : ls \in UNION {[1..n -> FrameLines] : n \in 1..MaxLines}}

\* the ways the pipe may split a text: the positions after which it cuts
CutSets(out) == {S \in SUBSET (1..(Len(out) - 1)) : Cardinality(S) <= MaxCuts}

\* the chunks of a text cut after the positions in cuts
RECURSIVE ChunksFrom(_, _, _)
ChunksFrom(out, from, cuts) ==
    IF cuts = {} THEN <<SubSeq(out, from, Len(out))>>
    ELSE LET c == CHOOSE x \in cuts : \A y \in cuts : x <= y
         IN <<SubSeq(out, from, c)>> \o ChunksFrom(out, c + 1, cuts \ {c})

\* one chunk per line, the way the child wrote them
LineCuts(out) == {i \in 1..(Len(out) - 1) : out[i] = NL}

NewWire(p, kind, id, out, cuts) ==
    [prov |-> p, kind |-> kind, id |-> id, out |-> out,
     chunks |-> ChunksFrom(out, 1, cuts), pos |-> 0, buf |-> <<>>,
     st |-> "listening", frame |-> NoFrame]

\* a listener of either provider, registered before the child writes
ChunkInit ==
    /\ proc = [p \in Providers |-> 0]
    /\ msgId = [p \in Providers |-> 1]
    /\ child = [p \in Providers |-> <<>>]
    /\ ops = <<>>
    /\ timers = <<>>
    /\ reqs = <<>>
    /\ crash = "none"
    /\ wire \in UNION {{NewWire(p, kind, id, out, cuts) :
                            p \in Providers, kind \in {"init", "send"},
                            id \in 1..2, cuts \in CutSets(out)} :
                        out \in Outputs}

\* the next chunk arrives
Feed ==
    /\ wire.pos < Len(wire.chunks)
    /\ wire' = [onWireData(wire, wire.chunks[wire.pos + 1])
                    EXCEPT !.pos = wire.pos + 1]
    /\ UNCHANGED <<proc, msgId, child, ops, timers, reqs, crash>>

SpecChunk == ChunkInit /\ [][Feed]_vars

\* ------------------------------------------- one request, every route
\* HTTP requests accepted in one run of the fan-out specification
MaxFanReq == 1

\* One request at a time on the routes that reach a provider, listings
\* with provider all among them, against children that answer, fail to
\* spawn, exit or stay silent.
NextFan ==
    \/ /\ Len(reqs) < MaxFanReq
       /\ \E q \in {NoHint, SupabaseKey, AllKey} : ListTools(q)
    \/ /\ Len(reqs) < MaxFanReq
       /\ McpList(AllKey, NoHint, 1)
    \/ /\ Len(reqs) < MaxFanReq
       /\ \E raw \in Names : CallTool(raw, NoHint)
    \/ /\ Len(reqs) < MaxFanReq
       /\ \E route \in SupabaseRoutes : SupabaseRoute(route, ToolT, NoId)
    \/ \E p \in Providers, c \in 1..(MaxFanReq + 1), i \in 1..(MaxFanReq + 2) :
           Answer(p, c, i, "result")
    \/ \E p \in Providers, c \in 1..(MaxFanReq + 1) : Exit(p, c)
    \/ Timeout

SpecFan == Init /\ [][NextFan]_vars

\* ------------------------------------- children that answer with errors
\* HTTP requests accepted in one run of the error-frame specification
MaxErrReq == 2

\* Listings and tool calls against children that answer a call with a
\* result or with an error frame, or stay silent.
NextErr ==
    \/ /\ Len(reqs) < MaxErrReq
       /\ \E q \in {NoHint, AllKey} : ListTools(q)
    \/ /\ Len(reqs) < MaxErrReq
       /\ \E raw \in Names : CallTool(raw, NoHint)
    \/ \E p \in Providers, c \in 1..MaxErrReq, i \in 1..(2 * MaxErrReq + 1) :
           Answer(p, c, i, "result")
    \/ \E p \in Providers, c \in 1..MaxErrReq, i \in 1..(2 * MaxErrReq + 1) :
           AnswerError(p, c, i)
    \/ Timeout

SpecErr == Init /\ [][NextErr]_vars

\* ------------------------------------- children that say too much
\* HTTP requests accepted in one run of the repeated-frame specification
MaxDupReq == 2

\* Tool calls against children that, besides answering, repeat a response
\* or emit one with an id of their own making.
NextDup ==
    \/ /\ Len(reqs) < MaxDupReq
       /\ \E raw \in Names : CallTool(raw, NoHint)
    \/ \E p \in Providers, c \in 1..MaxDupReq, i \in 1..(MaxDupReq + 1) :
           Answer(p, c, i, "result")
    \/ \E p \in Providers, c \in 1..MaxDupReq, i \in 1..(MaxDupReq + 1) :
           Duplicate(p, c, i)
    \/ \E p \in Providers, c \in 1..MaxDupReq : Stray(p, c, msgId[p])
    \/ Timeout

SpecDup == Init /\ [][NextDup]_vars

\* ---------------------------------------------------------- properties
Ops == 1..Len(ops)
Reqs == 1..Len(reqs)
Children(p) == 1..Len(child[p])

\* the timer of promise k has fired
TimerFired(k) == \A i \in 1..Len(timers) : timers[i] # k

\* the child promise k was created on
ChildOf(k) == child[ops[k].prov][ops[k].child]

Running(p) == {c \in Children(p) : child[p][c].st = "running"}

\* how many requests with this method child c of p has been written
Written(p, c, method) ==
    Cardinality({i \in 1..Len(child[p][c].stdin) :
                    child[p][c].stdin[i].method = method})

\* C1: every send that carries an id and has resolved, resolved with the
\* frame bearing its own id, on both providers.
IdCorrelation ==
    \A k \in Ops :
        (ops[k].kind = "send" /\ ops[k].st = "resolved" /\ ops[k].id # NoId)
            => ops[k].frame.id = ops[k].id

\* C2: as long as no child of a provider has terminated, however many
\* requests have called its init, the provider has spawned at most one
\* child and written exactly one initialize request per child; a request
\* that got past the spawn means there is exactly one child.
LazyInitIdempotence ==
    \A p \in Providers :
        (\A c \in Children(p) : child[p][c].st = "running")
            => /\ Len(child[p]) <= 1
               /\ \A c \in Children(p) : Written(p, c, "initialize") = 1
               /\ (\E k \in Ops : ops[k].prov = p) => Len(child[p]) = 1

\* two requests have called init of the same cold provider, the second
\* while the handshake of the first is still in flight, and there is one
\* running child with one initialize request
LazyInitWitness ==
    \E p \in Providers, k1, k2 \in Ops :
        /\ ops[k1].prov = p /\ ops[k1].kind = "init" /\ ops[k1].st = "pending"
        /\ ops[k2].prov = p /\ ops[k2].kind = "send" /\ ops[k2].req # ops[k1].req
        /\ Len(child[p]) = 1
        /\ child[p][1].st = "running"
        /\ Written(p, 1, "initialize") = 1

\* C3: a child has been written a request other than initialize only if
\* it has answered initialize with a result.
HandshakeOrdering ==
    \A p \in Providers :
        \A c \in Children(p) :
            Len(child[p][c].stdin) >= 2 => child[p][c].reply[1] = "result"

\* C4: a request routed to a provider none of whose children is running
\* any more, while one has exited, spawns a fresh child (or fails at once
\* because the spawn threw).
ReinitAfterDeath ==
    [][\A p \in Providers :
          (/\ Len(reqs') = Len(reqs) + 1
           /\ reqs'[Len(reqs')].prov = p
           /\ Running(p) = {}
           /\ \E c \in Children(p) : child[p][c].st = "exited")
              => \/ Len(child'[p]) = Len(child[p]) + 1
                 \/ reqs'[Len(reqs')].status = 500]_vars

\* C5: once the 10-second timer of an init or a send has fired, the
\* promise is settled.
BoundedResponse ==
    \A k \in Ops : TimerFired(k) => ops[k].st # "pending"

\* C6: a send whose timer has fired either had resolved with the frame of
\* its own id before, or is rejected; it is never resolved by another
\* frame and never left pending.
TimeoutExactlyOnce ==
    \A k \in Ops :
        (ops[k].kind = "send" /\ ops[k].id # NoId /\ TimerFired(k))
            => \/ ops[k].st = "rejected"
               \/ ops[k].st = "resolved" /\ ops[k].frame.id = ops[k].id

\* C7: an uncaught exception raised by the handlers of one provider never
\* leaves a request routed to the other provider unanswered.
ProviderIndependence ==
    \A r \in Reqs :
        (crash # "none" /\ reqs[r].prov # "none" /\ reqs[r].prov # crash)
            => reqs[r].pc = "done"

\* C8: a provider never has two running children; its handle, when set,
\* is the child spawned last, and every child spawned before the last has
\* terminated.
SingleHandle ==
    \A p \in Providers :
        /\ Cardinality(Running(p)) <= 1
        /\ proc[p] # 0 => proc[p] = Len(child[p])
        /\ \A c \in Children(p) : c < Len(child[p]) => child[p][c].st # "running"

\* a provider spawned a second child after the first exited, and the
\* second one is running behind the handle
SingleHandleWitness ==
    \E p \in Providers :
        /\ Len(child[p]) = 2
        /\ child[p][1].st = "exited"
        /\ child[p][2].st = "running"
        /\ proc[p] = 2

\* C9: no promise is pending on a child that has exited or failed to
\* spawn.
PendingRejectedOnExit ==
    \A k \in Ops : ops[k].st = "pending" => ChildOf(k).st = "running"

\* the index of the first '.' of a dotted name
FirstDot(str) ==
    CHOOSE i \in 1..Len(str) : str[i] = Dot /\ \A h \in 1..(i - 1) : str[h] # Dot

BeforeFirstDot(str) == SubSeq(str, 1, FirstDot(str) - 1)
AfterFirstDot(str) == SubSeq(str, FirstDot(str) + 1, Len(str))

Selector(r) ==
    IF includes(reqs[r].raw, Dot) THEN BeforeFirstDot(reqs[r].raw)
    ELSE IF reqs[r].bp # NoHint THEN reqs[r].bp
    ELSE reqs[r].q

ListRoutes == {"list", "mcplist", "mcpall"}
CallRoutes == {"tool", "mcp"}

\* C11: on GET /tools, POST /tools/:toolName and POST /mcp (tools/call,
\* tools/list and other methods), a request whose selector names no
\* registered provider, other than 'all' on a list route, is answered
\* with 400 and reaches no provider.
UnknownProviderRejected ==
    \A r \in Reqs :
        (/\ reqs[r].route \in ListRoutes \cup CallRoutes \cup {"mcpother"}
         /\ Selector(r) # NoHint
         /\ ~Registered(toLowerCase(Selector(r)))
         /\ ~(toLowerCase(Selector(r)) = AllKey /\ reqs[r].route \in ListRoutes))
            => /\ reqs[r].pc = "done"
               /\ reqs[r].status = 400
               /\ reqs[r].prov = "none"

\* C12: the step that answers a request with 400 (unknown provider, or
\* provider all on tools/call) spawns no child, writes to no child and
\* leaves every handle, id counter, promise and timer as it was.
RoutingErrorsTouchNothing ==
    [][(/\ Len(reqs') = Len(reqs) + 1
        /\ reqs'[Len(reqs')].status = 400)
           => /\ proc' = proc
              /\ msgId' = msgId
              /\ child' = child
              /\ ops' = ops
              /\ timers' = timers]_vars

\* POST /tools/t?provider=g answered with 400 on a bridge whose xero child
\* runs behind the handle and has been written an initialize request and
\* a call, and nothing more
RoutingErrorsWitness ==
    /\ Len(reqs) = 2
    /\ reqs[1].status = 200
    /\ reqs[2].status = 400
    /\ reqs[2].route = "tool"
    /\ reqs[2].q = GhostKey
    /\ proc["xero"] = 1
    /\ msgId["xero"] = 3
    /\ Len(child["xero"][1].stdin) = 2
    /\ child["supabase"] = <<>>

\* C13: every request on POST /tools/:toolName or POST /mcp with
\* tools/call whose selector is 'all' (prefix, params.provider or
\* ?provider) is answered with 400, and no promise was ever created for it.
AllRejectedForCalls ==
    \A r \in Reqs :
        (reqs[r].route \in CallRoutes /\ toLowerCase(Selector(r)) = AllKey)
            => /\ reqs[r].pc = "done"
               /\ reqs[r].status = 400
               /\ \A k \in Ops : ops[k].req # r

\* 'all.t' posted to /tools and a tools/call with params.provider 'all'
\* posted to /mcp, both answered with 400
AllRejectedWitness ==
    /\ Len(reqs) = 2
    /\ reqs[1].route = "tool" /\ reqs[1].raw = AllT /\ reqs[1].status = 400
    /\ reqs[2].route = "mcp" /\ reqs[2].bp = AllKey /\ reqs[2].status = 400

\* every request written to a child has been answered
AllAnswered ==
    \A p \in Providers :
        \A c \in Children(p) :
            \A i \in 1..Len(child[p][c].reply) : child[p][c].reply[i] # "none"

\* C14: a listing with provider all (GET /tools?provider=all, POST /mcp
\* with tools/list) that is answered with 200, both children having
\* answered every request written to them, carries xero's tools and then
\* supabase's, each in its native order under its provider prefix, nothing
\* dropped and nothing twice.
FanOutListing ==
    \A r \in Reqs :
        (/\ reqs[r].route \in {"list", "mcpall"}
         /\ reqs[r].key = AllKey
         /\ reqs[r].status = 200
         /\ AllAnswered)
            => reqs[r].tools = Prefixed("xero", NativeTools("xero"))
                                  \o Prefixed("supabase", NativeTools("supabase"))

\* C15: outside GET /health, a request answered with another status than
\* 200 has status 400 or 500 and the body { jsonrpc, error: { code,
\* message } }, and a request one of whose promises was rejected is not
\* answered with 200.
ErrorEnvelope ==
    \A r \in Reqs :
        reqs[r].route # "health"
            => /\ (reqs[r].pc = "done" /\ reqs[r].status # 200)
                      => /\ reqs[r].status \in {400, 500}
                         /\ reqs[r].form = "envelope"
               /\ (\E k \in Ops : ops[k].req = r /\ ops[k].st = "rejected")
                      => /\ reqs[r].pc = "done"
                         /\ reqs[r].status # 200

\* the xero init promises request r awaits, if any, have resolved
XeroReadyFor(r) ==
    \A k \in Ops :
        (ops[k].req = r /\ ops[k].prov = "xero") => ops[k].st = "resolved"

\* C16: a GET /health whose xero init has resolved (or found the handle
\* set) is answered with 200 in that same turn, whatever supabase does;
\* a 500 only ever comes from xero's own init being rejected.
HealthTolerates ==
    \A r \in Reqs :
        reqs[r].route = "health"
            => /\ XeroReadyFor(r) => (reqs[r].pc = "done" /\ reqs[r].status = 200)
               /\ reqs[r].status = 500
                      => \E k \in Ops : /\ ops[k].req = r
                                        /\ ops[k].prov = "xero"
                                        /\ ops[k].kind = "init"
                                        /\ ops[k].st = "rejected"

\* a probe answered with 200 although the supabase init it started was
\* rejected by its timer, on a child that failed to spawn or never
\* answered
HealthToleratesWitness ==
    \E r \in Reqs, k \in Ops :
        /\ reqs[r].route = "health"
        /\ reqs[r].status = 200
        /\ ops[k].req = 0
        /\ ops[k].prov = "supabase"
        /\ ops[k].st = "rejected"

\* the first request of the run is a GET /health and has been answered
\* with 200
ColdHealthOk ==
    /\ Len(reqs) >= 1
    /\ reqs[1].route = "health"
    /\ reqs[1].pc = "done"
    /\ reqs[1].status = 200

\* C17 as stated: the 200 of a first GET /health on a cold bridge reports
\* every provider flag false.
ColdHealthFlagsFalse ==
    ColdHealthOk => (~reqs[1].flags.xero /\ ~reqs[1].flags.supabase)

\* C17 as amended: a first GET /health on a cold bridge is answered with
\* 200 once xero's init has resolved, and that response reports xero true
\* with a xero child spawned, and supabase true exactly when the probe
\* found or assigned a supabase handle, false only if the spawn threw.
ColdHealthFlags ==
    /\ (/\ Len(reqs) >= 1
        /\ reqs[1].route = "health"
        /\ \E k \in Ops : ops[k].req = 1 /\ ops[k].st = "resolved")
           => ColdHealthOk
    /\ ColdHealthOk
           => /\ reqs[1].flags.xero
              /\ Len(child["xero"]) >= 1
              /\ reqs[1].flags.supabase => Len(child["supabase"]) >= 1
              /\ ~reqs[1].flags.supabase => reqs[1].spawn = "throw"

\* a cold first probe answered with 200, xero true and supabase true, the
\* supabase child having been spawned by the probe itself
ColdHealthWitness ==
    /\ ColdHealthOk
    /\ reqs[1].flags = [xero |-> TRUE, supabase |-> TRUE]
    /\ Len(reqs) = 1
    /\ Len(child["supabase"]) = 1

\* C18: once SIGINT has been handled the front end has left through
\* process.exit, and every child still running, xero's or supabase's, has
\* been sent a termination request.
ShutdownTerminates ==
    crash \in {"exit", "sigint"}
        => /\ crash = "exit"
           /\ \A p \in Providers :
                  \A c \in Children(p) :
                      child[p][c].st = "running" => child[p][c].term

\* the listener after all the chunks of w have arrived
RECURSIVE Run(_)
Run(w) ==
    IF w.pos = Len(w.chunks) THEN w
    ELSE Run([onWireData(w, w.chunks[w.pos + 1]) EXCEPT !.pos = w.pos + 1])

\* what the listener made of the stream
Seen(w) == [st |-> w.st, frame |-> w.frame]

\* C19: once the whole output has arrived, the init handshake or pending
\* call has seen what it sees when the same output arrives one line per
\* chunk, however the pipe split it.
ChunkInvariance ==
    wire.pos = Len(wire.chunks) /\ wire.st # "none"
        => Seen(wire) = Seen(Run(NewWire(wire.prov, wire.kind, wire.id, wire.out,
                                         LineCuts(wire.out))))

\* C20: a non-JSON line on a child's stdout is delivered to nobody and
\* harms nobody: the step in which a child prints one settles no
\* handshake and no call, removes no listener, answers no request and does
\* not end the front end.
LogLineTolerance ==
    [][LogsPrinted' = LogsPrinted + 1
          => /\ ops' = ops
             /\ reqs' = reqs
             /\ crash' = crash]_vars

\* C21: on every route, every request written to a child carries an id
\* below the provider's counter (the counter gave it out), and the ids
\* written to one child are strictly increasing, so that none is written
\* again while an earlier request with it is pending.
OutboundIds ==
    \A p \in Providers :
        \A c \in Children(p) :
            LET in == child[p][c].stdin
            IN /\ \A i \in 1..Len(in) : in[i].id # NoId /\ in[i].id < msgId[p]
               /\ \A i, j \in 1..Len(in) : i < j => in[i].id < in[j].id

\* C22: the step that answers a GET /health, with 200 or with 500, reports
\* each provider's server as running exactly when a child of that provider
\* is alive at that moment.
HealthReportsLiveness ==
    [][\A r \in 1..Len(reqs') :
          (/\ reqs'[r].route = "health"
           /\ reqs'[r].pc = "done"
           /\ (r > Len(reqs) \/ reqs[r].pc # "done"))
              => \A p \in Providers :
                     reqs'[r].servers[p]
                         <=> \E c \in 1..Len(child'[p]) :
                                 child'[p][c].st = "running"]_vars

\* the init promises of provider p still awaiting the handshake response
InitsPending(p) ==
    {k \in Ops : ops[k].prov = p /\ ops[k].kind = "init" /\ ops[k].st = "pending"}

\* the promises created in this step for the request that arrives in it
NewSends ==
    {k \in 1..Len(ops') :
        /\ k > Len(ops)
        /\ ops'[k].kind = "send"}

\* C23: a request that calls a provider's init while an earlier init of
\* that provider still awaits its handshake response does not get past
\* init in that step: nothing is sent for it before the response.
SharedInitOutcome ==
    [][\A p \in Providers :
          (/\ Len(reqs') = Len(reqs) + 1
           /\ reqs'[Len(reqs')].prov = p
           /\ InitsPending(p) # {})
              => \A k \in NewSends : ops'[k].req # Len(reqs')]_vars

\* the init promise created last for provider p, 0 if there is none
LastInit(p) ==
    IF \E k \in Ops : ops[k].prov = p /\ ops[k].kind = "init"
    THEN CHOOSE k \in Ops :
             /\ ops[k].prov = p /\ ops[k].kind = "init"
             /\ \A j \in Ops : (ops[j].prov = p /\ ops[j].kind = "init") => j <= k
    ELSE 0

\* C24: a request that calls a provider's init after the last init of
\* that provider was rejected spawns a fresh child and writes it a new
\* initialize request, or fails; it does not go on as if the session were
\* ready.
FailedInitNotReady ==
    [][\A p \in Providers :
          (/\ Len(reqs') = Len(reqs) + 1
           /\ reqs'[Len(reqs')].prov = p
           /\ LastInit(p) # 0
           /\ ops[LastInit(p)].st = "rejected")
              => \/ /\ Len(child'[p]) = Len(child[p]) + 1
                    /\ NewSends = {}
                 \/ reqs'[Len(reqs')].status = 500]_vars

\* C25: an init whose child has answered the initialize request with an
\* error frame is rejected, not left waiting.
InitErrorFatal ==
    \A k \in Ops :
        (/\ ops[k].kind = "init"
         /\ \E i \in 1..Len(ChildOf(k).stdin) :
                /\ ChildOf(k).stdin[i].method = "initialize"
                /\ ChildOf(k).reply[i] = "error")
            => ops[k].st = "rejected"

\* C26: an init resolves on the first frame with a result its child
\* emits, whatever id the frame bears: while it is pending the child has
\* emitted no result, once resolved it holds a frame with a result that
\* answers some request written to that child, and lines and frames
\* without a result neither resolve nor reject it: only its timer rejects.
InitOnFirstResult ==
    \A k \in Ops :
        ops[k].kind = "init"
            => /\ ops[k].st = "pending"
                      => \A i \in 1..Len(ChildOf(k).reply) :
                             ChildOf(k).reply[i] # "result"
               /\ ops[k].st = "resolved"
                      => /\ HasResult(ops[k].frame)
                         /\ \E i \in 1..Len(ChildOf(k).stdin) :
                                /\ ChildOf(k).stdin[i].id = ops[k].frame.id
                                /\ ChildOf(k).reply[i] = "result"
               /\ ops[k].st = "rejected" => TimerFired(k)

\* a supabase init resolved by the result frame of a call (another id
\* than initialize's) after a log line and the error frame answering
\* initialize were skipped
InitOnFirstResultWitness ==
    \E k \in Ops :
        /\ ops[k].kind = "init"
        /\ ops[k].prov = "supabase"
        /\ ops[k].st = "resolved"
        /\ ops[k].frame.id # ops[k].id
        /\ ChildOf(k).reply[1] = "error"
        /\ ChildOf(k).logs = 1

\* C27: once a child has failed to spawn, its provider's handle is not
\* that child, every promise created on it has been rejected, and nothing
\* but the initialize request of its spawn was ever written to it.
SpawnFailureFails ==
    \A p \in Providers :
        \A c \in Children(p) :
            child[p][c].st = "failed"
                => /\ proc[p] # c
                   /\ \A k \in Ops :
                          (ops[k].prov = p /\ ops[k].child = c)
                              => ops[k].st = "rejected"
                   /\ Len(child[p][c].stdin) <= 1

\* C28: a pending send whose message carries an id leaves the pending
\* state only by resolving with a frame that bears that id or by its own
\* timer; a step that brings any other frame leaves it waiting.
OwnFrameOnly ==
    [][\A k \in Ops :
          (/\ ops[k].kind = "send"
           /\ ops[k].id # NoId
           /\ ops[k].st = "pending"
           /\ ops'[k].st # "pending")
              => \/ /\ ops'[k].st = "resolved"
                    /\ ops'[k].frame.json
                    /\ ops'[k].frame.id = ops[k].id
                 \/ /\ ops'[k].st = "rejected"
                    /\ timers # <<>>
                    /\ Head(timers) = k]_vars

\* a child emits a frame nobody waits for in this step
ExtraEmitted ==
    \E p \in Providers :
        \E c \in Children(p) : child'[p][c].extra = child[p][c].extra + 1

\* C29: the step in which a child repeats a response it has given, or
\* emits a response whose id no request written to it has, changes no
\* call: none is resolved, none rejected, the requests awaiting calls are
\* as they were, and the front end goes on.
ExtraFramesAbsorbed ==
    [][ExtraEmitted
          => /\ \A k \in Ops : ops[k].kind = "send" => ops'[k] = ops[k]
             /\ \A r \in Reqs : reqs[r].pc = "send" => reqs'[r] = reqs[r]
             /\ crash' = crash]_vars

\* the init promise of the child that promise k is created on in this
\* step has been rejected
InitFailed(k) ==
    \E j \in 1..Len(ops') :
        /\ ops'[j].kind = "init"
        /\ ops'[j].prov = ops'[k].prov
        /\ ops'[j].child = ops'[k].child
        /\ ops'[j].st = "rejected"

\* C30: a send writes its message and starts to wait only on a child that
\* is running and whose init has not failed; with no child, after a failed
\* init or after the child's exit it rejects in the step it is called,
\* with nothing written and no timer armed.
SendNeedsReady ==
    [][\A k \in 1..Len(ops') :
          (k > Len(ops) /\ ops'[k].kind = "send")
              => /\ child'[ops'[k].prov][ops'[k].child].st = "running"
                 /\ ~InitFailed(k)]_vars

\* C31: a request whose call resolved with an error frame, once answered,
\* has that frame as its body, on the call routes and on the list routes
\* alike.
ErrorFrameForwarded ==
    \A k \in Ops :
        (/\ ops[k].kind = "send"
         /\ ops[k].st = "resolved"
         /\ ops[k].frame.res = "error"
         /\ ops[k].req # 0
         /\ reqs[ops[k].req].pc = "done")
            => reqs[ops[k].req].body = ops[k].frame

\* C32: a GET /health answered with 200 found the initialize handshake of
\* xero's current child answered with a result; any other probe is
\* answered with 500 and the error body.
HealthMeansReady ==
    \A r \in Reqs :
        (reqs[r].route = "health" /\ reqs[r].pc = "done")
            => /\ reqs[r].status \in {200, 500}
               /\ reqs[r].form = "health"
               /\ reqs[r].status = 200
                      => \E k \in Ops :
                             /\ ops[k].prov = "xero"
                             /\ ops[k].kind = "init"
                             /\ ops[k].child = proc["xero"]
                             /\ ops[k].st = "resolved"

\* the requests written so far to the children of provider p
RECURSIVE SumStdin(_)
SumStdin(cs) == IF cs = <<>> THEN 0 ELSE Len(Head(cs).stdin) + SumStdin(Tail(cs))

\* the requests routed to provider p that this step answers with 500
FailedNow(p) ==
    Cardinality({r \in 1..Len(reqs') :
                    /\ reqs'[r].prov = p
                    /\ reqs'[r].status = 500
                    /\ (r > Len(reqs) \/ reqs[r].status # 500)})

\* C33: in every step, on every route, a provider's id counter never goes
\* back and advances by no more than the requests written in that step to
\* that provider's own children, plus the calls to it that failed before
\* the write; a step that writes only to xero leaves supabase's counter as
\* it was, and the other way round.
CountersOwned ==
    [][\A p \in Providers :
          /\ msgId'[p] >= msgId[p]
          /\ msgId'[p] - msgId[p]
                 <= SumStdin(child'[p]) - SumStdin(child[p]) + FailedNow(p)]_vars

\* a listing with provider all answered with 200: each provider was
\* written initialize and tools/list, and each counter stands at 3
CountersOwnedWitness ==
    \E r \in Reqs :
        /\ reqs[r].route \in {"list", "mcpall"}
        /\ reqs[r].key = AllKey
        /\ reqs[r].status = 200
        /\ msgId = [p \in Providers |-> 3]
        /\ \A p \in Providers : SumStdin(child[p]) = 2

\* the provider key the hints of request r select when its tool name has
\* no '.': params.provider, else ?provider, else xero
HintKey(r) ==
    IF reqs[r].bp # NoHint THEN toLowerCase(reqs[r].bp)
    ELSE IF reqs[r].q # NoHint THEN toLowerCase(reqs[r].q)
    ELSE XeroKey

\* C34: on POST /tools/:toolName and POST /mcp with tools/call, a request
\* whose tool name has no '.' is routed by its hint, params.provider
\* before ?provider, and to xero when it has none: the name is kept as
\* given, and every message written for it goes to that provider's child.
HintAndDefault ==
    \A r \in Reqs :
        (reqs[r].route \in CallRoutes /\ ~includes(reqs[r].raw, Dot))
            => /\ reqs[r].key = HintKey(r)
               /\ reqs[r].name = reqs[r].raw
               /\ reqs[r].prov # "none" => KeyOf(reqs[r].prov) = HintKey(r)
               /\ \A k \in Ops :
                      ops[k].req = r
                          => /\ KeyOf(ops[k].prov) = HintKey(r)
                             /\ Len(child[ops[k].prov][ops[k].child].stdin) >= 1

\* a tools/call for 't' posted to /mcp?provider=xero with params.provider
\* supabase, written to the supabase child under the name 't'
HintAndDefaultWitness ==
    \E k \in Ops :
        LET r == reqs[ops[k].req]
        IN /\ ops[k].kind = "send"
           /\ r.route = "mcp"
           /\ r.raw = ToolT
           /\ r.bp = SupabaseKey
           /\ r.q = XeroKey
           /\ ops[k].prov = "supabase"
           /\ ChildOf(k).stdin[Len(ChildOf(k).stdin)].name = ToolT

\* C35: a listing with provider all that still waits for xero, for its
\* init or for its tools/list response, has by then sent tools/list to
\* supabase, or is at least awaiting supabase's handshake to send it.
FanOutConcurrent ==
    \A r \in Reqs :
        (/\ reqs[r].route \in {"list", "mcpall"}
         /\ reqs[r].key = AllKey
         /\ reqs[r].pc # "done"
         /\ \E k \in Ops : /\ ops[k].req = r
                           /\ ops[k].prov = "xero"
                           /\ ops[k].st = "pending")
            => \E k \in Ops :
                   /\ ops[k].req = r
                   /\ ops[k].prov = "supabase"
                   /\ (ops[k].kind = "send" \/ ops[k].st = "pending")

\* the promises of provider p
OpsOf(p) == {k \in Ops : ops[k].prov = p}

\* the promises created in this step
Created == {k \in 1..Len(ops') : k > Len(ops)}

Stale(k) ==
    \/ ops[k].st # "pending"
    \/ ChildOf(k).st # "running"
    \/ proc[ops[k].prov] # ops[k].child

\* C37: a timer that fires for a stale promise raises nothing and settles
\* no other promise; if its own promise was settled already, the step
\* changes nothing but the timer queue.
StaleTimersHarmless ==
    [][(timers # <<>> /\ timers' = Tail(timers) /\ Stale(Head(timers)))
          => /\ crash' = crash
             /\ \A j \in Ops : j # Head(timers) => ops'[j] = ops[j]
             /\ ops[Head(timers)].st # "pending"
                    => /\ ops' = ops
                       /\ reqs' = reqs
                       /\ child' = child
                       /\ proc' = proc
                       /\ msgId' = msgId]_vars

\* C38: while the front end runs, a promise that has resolved or been
\* rejected has no listener left on any stdout, and on a running child the
\* registered listeners are exactly those of the pending promises.
ListenerBookkeeping ==
    crash = "none"
        => \A k \in Ops :
               /\ ops[k].st # "pending" => ~ops[k].listening
               /\ ChildOf(k).st = "running"
                      => (ops[k].listening <=> ops[k].st = "pending")

\* the promises of request r for provider p
OpsFor(r, p) == {k \in Ops : ops[k].req = r /\ ops[k].prov = p}

\* C39: a listing with provider all is answered with 200 only with the
\* tools of both providers in it, each provider's tools/list having
\* resolved; if a promise of it was rejected, or a provider answered
\* tools/list with an error, the answer is 500.
FanOutAllOrNothing ==
    \A r \in Reqs :
        (/\ reqs[r].route \in {"list", "mcpall"}
         /\ reqs[r].key = AllKey
         /\ reqs[r].pc = "done")
            => /\ reqs[r].status \in {200, 500}
               /\ reqs[r].status = 200
                      => /\ reqs[r].tools =
                                Prefixed("xero", NativeTools("xero"))
                                    \o Prefixed("supabase", NativeTools("supabase"))
                         /\ \A p \in Providers :
                                \E k \in OpsFor(r, p) :
                                    /\ ops[k].kind = "send"
                                    /\ ops[k].st = "resolved"
                                    /\ ops[k].frame.res = "tools"
               /\ (\E k \in Ops : /\ ops[k].req = r
                                  /\ \/ ops[k].st = "rejected"
                                     \/ /\ ops[k].kind = "send"
                                        /\ ops[k].st = "resolved"
                                        /\ ops[k].frame.res = "error")
                      => reqs[r].status = 500

====
